---------------------------- MODULE Spec2Model ----------------------------
(***************************************************************************)
(* A state-machine model of fileReaderForSlackOff.py: the TextReader       *)
(* window (visibility and auto-hide timer), its configuration store, the   *)
(* file loader, the chapter list and the bookmark store.                   *)
(*                                                                         *)
(* Text is modelled as a sequence of characters (one-character strings);   *)
(* a few fixed words (the keys of the config file, font names, the drop    *)
(* hint) are single tokens of such a sequence.                             *)
(*                                                                         *)
(* Environment assumptions: a system tray is available (init_system_tray   *)
(* does not quit), the ini directory is writable, and a text line is not   *)
(* wrapped by the layout (StartOfLine/EndOfLine delimit a paragraph).      *)
(***************************************************************************)
EXTENDS Integers, Sequences, FiniteSets, TLC

VARIABLES
    pc,                  \* "start": process launched, TextReader() not yet run;
                         \* "emergency": constructed, --emergency block pending;
                         \* "running": the event loop dispatches handlers
    transparency,        \* self.transparency
    is_hidden,           \* self.is_hidden
    is_empty,            \* self.is_empty
    font,                \* self.font: [family, size]
    text_color,          \* self.text_color: [r, g, b, a]
    bg_color,            \* self.bg_color: [r, g, b, a]
    drag_start_position, \* self.drag_start_position: <<>> (None) or <<pos>>
    style_sheet,         \* the style sheet last applied to text_edit
    doc,                 \* text_edit.toPlainText()
    cursor,              \* text_edit.textCursor(): [anchor, pos]
    hide_timer,          \* self.hide_timer: [active, remaining]
    original_bg_alpha,   \* self.original_bg_alpha: <<>> (no attribute) or <<a>>
    visible,             \* self.isVisible()
    geometry,            \* the window's [x, y, width, height]
    status,              \* the tray menu's status text
    current_file,        \* self.current_file
    config_file,         \* ini/config.txt: NoFile or its lines
    bookmark_file,       \* ini/bookmark.txt: NoFile or its lines
    recent_file,         \* ini/recent.txt: NoFile or its text
    error_log,           \* number of lines appended to error.log
    chapters,            \* self.chapters (<<>> while the attribute is not set)
    draft,               \* the text of draft.txt, a file of the machine
    shown,               \* history: the message boxes the last handler showed
    last_op,             \* history: the handler that ran last
    last_arg,            \* history: its argument (a bookmark label)
    content,             \* history: the text last loaded into text_edit
    saved,               \* history: what save_config last saw, <<>> or <<snapshot>>
    loaded_cfg,          \* history: the config file the last handler read
    bm_src,              \* history: per bookmark line, the text it was taken from
    displayed_file,      \* history: the file whose text load_file displayed last
    chapters_src         \* history: the file self.chapters was extracted from

vars == <<pc, transparency, is_hidden, is_empty, font,
          text_color, bg_color, drag_start_position, style_sheet, doc, cursor,
          hide_timer, original_bg_alpha, visible, geometry,
          status, current_file, config_file, bookmark_file, recent_file,
          error_log, chapters, draft, shown, last_op, last_arg, content,
          saved, loaded_cfg, bm_src, displayed_file, chapters_src>>

-----------------------------------------------------------------------------
(* Bounds of the model *)

\* The hide delay is crossed in this many steps of time.
TimeSteps == 2
\* Lines the bookmark file may grow to.
MaxBookmarks == 2
\* Lines error.log may grow to.
MaxLog == 2
\* Characters draft.txt may hold.
DraftLen == 3

-----------------------------------------------------------------------------
(* Program constants *)

hide_delay == 5000
DefaultTransparency == 80
DefaultAlpha == 204
MinTransparency == 30
MaxTransparency == 100
MinWidth == 300
MaxWidth == 2000
MinHeight == 200
MaxHeight == 1500
MinResize == 50
BookmarkMaxLen == 100
MenuLabelMax == 30
MenuLabelKeep == 27
MenuMaxBookmarks == 10
MatchMaxLen == 10
MaxChapters == 20

\* A file of the ini directory: absent, or its lines
NoFile == [exists |-> FALSE, lines |-> <<>>]
FileOf(lines) == [exists |-> TRUE, lines |-> lines]

-----------------------------------------------------------------------------
(* Python strings *)

Min(a, b) == IF a < b THEN a ELSE b
Max(a, b) == IF a > b THEN a ELSE b

Whitespace == {" ", "\t", "\n"}

Digits == <<"0", "1", "2", "3", "4", "5", "6", "7", "8", "9">>
HexDigits == <<"0", "1", "2", "3", "4", "5", "6", "7", "8", "9",
               "a", "b", "c", "d", "e", "f">>

IsDigit(c) == \E i \in 1..10 : Digits[i] = c
DigitVal(c) == (CHOOSE i \in 1..10 : Digits[i] = c) - 1
IsHex(c) == \E i \in 1..16 : HexDigits[i] = c
HexVal(c) == (CHOOSE i \in 1..16 : HexDigits[i] = c) - 1

\* s[a:b] of Python for 0 <= a, 0 <= b
Slice(s, a, b) == SubSeq(s, a + 1, Min(b, Len(s)))

\* str.startswith
StartsWith(s, p) == Len(p) <= Len(s) /\ SubSeq(s, 1, Len(p)) = p

\* str.strip
RECURSIVE LStrip(_)
LStrip(s) ==
    IF s # <<>> /\ Head(s) \in Whitespace THEN LStrip(Tail(s)) ELSE s
RECURSIVE RStrip(_)
RStrip(s) ==
    IF s # <<>> /\ s[Len(s)] \in Whitespace
    THEN RStrip(SubSeq(s, 1, Len(s) - 1)) ELSE s
Strip(s) == RStrip(LStrip(s))

\* str.find: the 0-based index of the first occurrence of sub in s, or -1
Find(s, sub) ==
    LET found == {i \in 0..(Len(s) - Len(sub)) :
                     SubSeq(s, i + 1, i + Len(sub)) = sub}
    IN  IF found = {} THEN -1
        ELSE CHOOSE i \in found : \A j \in found : i <= j

\* str.split(sep): the fields of s between the occurrences of sep
RECURSIVE Split(_, _)
Split(s, sep) ==
    LET i == Find(s, <<sep>>)
    IN  IF i = -1 THEN <<s>>
        ELSE <<SubSeq(s, 1, i)>> \o Split(SubSeq(s, i + 2, Len(s)), sep)

\* str(n) for an integer n
RECURSIVE NatStr(_)
NatStr(n) ==
    IF n < 10 THEN <<Digits[n + 1]>>
    ELSE NatStr(n \div 10) \o <<Digits[(n % 10) + 1]>>
\* (a variant that drops the sign)
IntStr_unsigned(n) == IF n < 0 THEN NatStr(-n) ELSE NatStr(n)
IntStr(n) == IF n < 0 THEN <<"-">> \o NatStr(-n) ELSE NatStr(n)

\* int(s): [ok |-> FALSE] stands for ValueError.  Python strips whitespace,
\* takes one optional sign and then needs at least one digit.
RECURSIVE DigitsVal(_, _)
DigitsVal(s, acc) ==
    IF s = <<>> THEN acc ELSE DigitsVal(Tail(s), acc * 10 + DigitVal(Head(s)))
ParseInt(str) ==
    LET s == Strip(str)
        signed == s # <<>> /\ Head(s) \in {"-", "+"}
        body == IF signed THEN Tail(s) ELSE s
    IN  IF body = <<>> \/ \E i \in 1..Len(body) : ~IsDigit(body[i])
        THEN [ok |-> FALSE, val |-> 0]
        ELSE [ok |-> TRUE,
              val |-> IF signed /\ Head(s) = "-"
                      THEN 0 - DigitsVal(body, 0) ELSE DigitsVal(body, 0)]

-----------------------------------------------------------------------------
(* QColor *)

QColor(r, g, b, a) == [r |-> r, g |-> g, b |-> b, a |-> a]

setAlpha(c, a) == [c EXCEPT !.a = a]

\* QColor.name(): "#rrggbb", the alpha channel is not part of it
Hex2(n) == <<HexDigits[(n \div 16) + 1], HexDigits[(n % 16) + 1]>>
ColorName(c) == <<"#">> \o Hex2(c.r) \o Hex2(c.g) \o Hex2(c.b)

\* QColor(name): "#rrggbb" gives an opaque colour; a string of another shape
\* gives the invalid colour, which reads as opaque black.
ColorFromName(str) ==
    IF Len(str) = 7 /\ str[1] = "#" /\ \A i \in 2..7 : IsHex(str[i])
    THEN QColor(HexVal(str[2]) * 16 + HexVal(str[3]),
                HexVal(str[4]) * 16 + HexVal(str[5]),
                HexVal(str[6]) * 16 + HexVal(str[7]), 255)
    ELSE QColor(0, 0, 0, 255)

\* int(255 * value / 100)
AlphaOf(value) == (255 * value) \div 100

-----------------------------------------------------------------------------
(* The TextReader object and the files it owns, as one record *)

Self ==
    [pc |-> pc,
     transparency |-> transparency, is_hidden |-> is_hidden,
     is_empty |-> is_empty, font |-> font, text_color |-> text_color,
     bg_color |-> bg_color, drag_start_position |-> drag_start_position,
     style_sheet |-> style_sheet, doc |-> doc, cursor |-> cursor,
     hide_timer |-> hide_timer, original_bg_alpha |-> original_bg_alpha,
     visible |-> visible, geometry |-> geometry,
     status |-> status, current_file |-> current_file,
     config_file |-> config_file, bookmark_file |-> bookmark_file,
     recent_file |-> recent_file, error_log |-> error_log, shown |-> shown,
     last_op |-> last_op, last_arg |-> last_arg, content |-> content,
     saved |-> saved, loaded_cfg |-> loaded_cfg, bm_src |-> bm_src,
     chapters |-> chapters, displayed_file |-> displayed_file,
     chapters_src |-> chapters_src]

\* The handler named op, called with arg, has run and left the record s.
Commit(s, op, arg) ==
    /\ pc' = s.pc
    /\ transparency' = s.transparency
    /\ is_hidden' = s.is_hidden
    /\ is_empty' = s.is_empty
    /\ font' = s.font
    /\ text_color' = s.text_color
    /\ bg_color' = s.bg_color
    /\ drag_start_position' = s.drag_start_position
    /\ style_sheet' = s.style_sheet
    /\ doc' = s.doc
    /\ cursor' = s.cursor
    /\ hide_timer' = s.hide_timer
    /\ original_bg_alpha' = s.original_bg_alpha
    /\ visible' = s.visible
    /\ geometry' = s.geometry
    /\ status' = s.status
    /\ current_file' = s.current_file
    /\ config_file' = s.config_file
    /\ bookmark_file' = s.bookmark_file
    /\ recent_file' = s.recent_file
    /\ error_log' = s.error_log
    /\ shown' = s.shown
    /\ last_op' = op
    /\ last_arg' = arg
    /\ content' = s.content
    /\ saved' = s.saved
    /\ loaded_cfg' = s.loaded_cfg
    /\ bm_src' = s.bm_src
    /\ chapters' = s.chapters
    /\ displayed_file' = s.displayed_file
    /\ chapters_src' = s.chapters_src
    /\ draft' = draft

-----------------------------------------------------------------------------
(* Message boxes, style sheet, tray status, timer *)

\* show_error_message: a modal box; the handler goes on when it is closed
show_error_message(s, message) ==
    [s EXCEPT !.shown = Append(@, [title |-> "error", text |-> message])]

\* show_message
show_message(s, title, message) ==
    [s EXCEPT !.shown = Append(@, [title |-> title, text |-> message])]

\* get_style_sheet: the background with its alpha, the text colour always
\* with alpha 255, the font
get_style_sheet(s) ==
    [bg |-> s.bg_color,
     text |-> setAlpha(s.text_color, 255),
     font |-> s.font]

\* text_edit.setStyleSheet(self.get_style_sheet())
setStyleSheet(s) == [s EXCEPT !.style_sheet = get_style_sheet(s)]

\* hasattr(self, 'status_action'): init_system_tray has run.  Before it,
\* update_tray_status raises AttributeError.
has_status_action(s) == s.status # ""

\* update_tray_status
update_tray_status(s) ==
    [s EXCEPT !.status = IF s.is_hidden THEN "hidden"
                         ELSE IF s.is_empty THEN "waiting for file"
                         ELSE "reading"]

\* QTimer.start(msec): (re)starts the timer with the whole interval
timer_start(s, msec) ==
    [s EXCEPT !.hide_timer = [active |-> TRUE, remaining |-> msec]]

\* QTimer.stop()
timer_stop(s) ==
    [s EXCEPT !.hide_timer = [active |-> FALSE, remaining |-> 0]]

\* The plain text of the drop hint that update_empty_state sets as HTML
Placeholder == <<"<drop a TXT file here to start reading>", "\n",
                 "<shortcut: Ctrl+Alt+T (show/hide window)>">>

\* QTextEdit.setText / setHtml: the document is replaced, the cursor is at 0
setText(s, text) ==
    [s EXCEPT !.doc = text, !.cursor = [anchor |-> 0, pos |-> 0]]

-----------------------------------------------------------------------------
(* Visibility controller *)

\* update_empty_state, up to its call of update_tray_status
update_empty_state_flags(s) ==
    LET text == Strip(s.doc)
        s1 == [s EXCEPT !.is_empty = (Len(text) = 0)]
    IN  IF s1.is_empty
        THEN timer_stop(setText(s1, Placeholder))
        ELSE timer_start(s1, hide_delay)
\* update_empty_state
update_empty_state(s) == update_tray_status(update_empty_state_flags(s))

\* hide_window
hide_window(s) ==
    LET s1 == IF s.original_bg_alpha = <<>>
              THEN [s EXCEPT !.original_bg_alpha = <<s.bg_color.a>>]
              ELSE s
        s2 == setStyleSheet([s1 EXCEPT !.bg_color = setAlpha(@, 0)])
        s3 == timer_stop([s2 EXCEPT !.is_hidden = TRUE])
    IN  update_tray_status(s3)

\* check_and_hide_window: the slot of hide_timer.timeout
check_and_hide_window(s) ==
    IF ~s.is_empty /\ ~s.is_hidden THEN hide_window(s) ELSE s

\* show_window
show_window(s) ==
    LET s1 == IF s.original_bg_alpha # <<>>
              THEN setStyleSheet(
                       [s EXCEPT !.bg_color = setAlpha(@, s.original_bg_alpha[1])])
              ELSE s
        s2 == [s1 EXCEPT !.is_hidden = FALSE]
        s3 == IF ~s2.is_empty THEN timer_start(s2, hide_delay) ELSE s2
    IN  update_tray_status(s3)

\* self.show(); self.raise_(); self.activateWindow()
show_raise_activate(s) == [s EXCEPT !.visible = TRUE]

\* toggle_window_visibility: the slot of the Ctrl+Alt+T shortcut
toggle_window_visibility(s) ==
    IF s.visible /\ ~s.is_empty
    THEN hide_window(s)
    ELSE show_window(show_raise_activate(s))

\* show_window_from_tray
show_window_from_tray(s) ==
    update_tray_status(show_window(show_raise_activate(s)))

\* hide_window_to_tray
\* (first a variant that leaves the tray status as it is)
hide_window_to_tray_quiet(s) ==
    [s EXCEPT !.visible = FALSE, !.is_hidden = TRUE]
hide_window_to_tray(s) ==
    update_tray_status([s EXCEPT !.visible = FALSE, !.is_hidden = TRUE])

\* tray_icon_activated(reason)
tray_icon_activated(s, reason) ==
    IF reason = "Trigger"
    THEN IF s.visible THEN hide_window_to_tray(s) ELSE show_window_from_tray(s)
    ELSE IF reason = "DoubleClick" THEN show_window_from_tray(s)
    ELSE s

\* force_show_window
force_show_window(s) ==
    update_tray_status([show_raise_activate(s) EXCEPT !.is_hidden = FALSE])

-----------------------------------------------------------------------------
(* Configuration store *)

\* QApplication.desktop().availableGeometry() of the machine
screen_geometry == [width |-> 1920, height |-> 1040]

\* One line "key=value" of the config file
ConfigLine(key, value) == <<key, "=">> \o value

\* save_config: nine lines written from the current state
save_config(s) ==
    [s EXCEPT
       !.config_file = FileOf(<<
           ConfigLine("transparency", IntStr(s.transparency)),
           ConfigLine("window_width", IntStr(s.geometry.width)),
           ConfigLine("window_height", IntStr(s.geometry.height)),
           ConfigLine("window_x", IntStr(s.geometry.x)),
           ConfigLine("window_y", IntStr(s.geometry.y)),
           ConfigLine("font", s.font.family),
           ConfigLine("font_size", IntStr(s.font.size)),
           ConfigLine("text_color", ColorName(s.text_color)),
           ConfigLine("bg_color", ColorName(s.bg_color)) >>),
       !.saved = << [geometry |-> s.geometry, text_color |-> s.text_color,
                     bg_color |-> s.bg_color] >>]

\* max(30, min(100, v))  (first a variant that leaves v as it is)
clamp_transparency_off(v) == v
clamp_transparency(v) == Max(MinTransparency, Min(MaxTransparency, v))

\* max(300, min(2000, v)) and max(200, min(1500, v))
clamp_width(v) == Max(MinWidth, Min(MaxWidth, v))
clamp_height(v) == Max(MinHeight, Min(MaxHeight, v))

\* QFont.setPointSize: a size <= 0 is refused with a warning
setPointSize(f, size) == IF size > 0 THEN [f EXCEPT !.size = size] ELSE f

\* self.window_width, window_height, window_x, window_y: attributes that only
\* load_config sets and reads, and load_config runs once per object; each is
\* <<>> (no attribute) or <<v>>
NoWindowAttr == [width |-> <<>>, height |-> <<>>, x |-> <<>>, y |-> <<>>]

\* One round of the loop of load_config over the lines of the file:
\* [s, attr, ok], ok FALSE when int() raised ValueError
load_config_line(s, attr, raw) ==
    LET line == Strip(raw)
        value == Split(line, "=")[2]
        n == ParseInt(value)
        IsKey(key) == StartsWith(line, <<key, "=">>)
        Done(s1, attr1) == [s |-> s1, attr |-> attr1, ok |-> TRUE]
        Numeric(s1, attr1) == IF n.ok THEN Done(s1, attr1)
                              ELSE [s |-> s, attr |-> attr, ok |-> FALSE]
    IN  IF IsKey("transparency")
        THEN Numeric([s EXCEPT !.transparency = clamp_transparency(n.val)], attr)
        ELSE IF IsKey("window_width")
        THEN Numeric(s, [attr EXCEPT !.width = <<clamp_width(n.val)>>])
        ELSE IF IsKey("window_height")
        THEN Numeric(s, [attr EXCEPT !.height = <<clamp_height(n.val)>>])
        ELSE IF IsKey("window_x")
        THEN Numeric(s, [attr EXCEPT !.x = <<n.val>>])
        ELSE IF IsKey("window_y")
        THEN Numeric(s, [attr EXCEPT !.y = <<n.val>>])
        ELSE IF IsKey("font")
        THEN Done([s EXCEPT !.font.family = value], attr)
        ELSE IF IsKey("font_size")
        THEN Numeric([s EXCEPT !.font = setPointSize(@, n.val)], attr)
        ELSE IF IsKey("text_color")
        THEN Done([s EXCEPT !.text_color = setAlpha(ColorFromName(value), 255)],
                  attr)
        ELSE IF IsKey("bg_color")
        THEN Done([s EXCEPT !.bg_color = ColorFromName(value)], attr)
        ELSE Done(s, attr)

\* The loop: stops at the first line that raises
RECURSIVE load_config_lines(_, _, _)
load_config_lines(s, attr, lines) ==
    IF lines = <<>> THEN [s |-> s, attr |-> attr, ok |-> TRUE]
    ELSE LET r == load_config_line(s, attr, Head(lines))
         IN  IF r.ok THEN load_config_lines(r.s, r.attr, Tail(lines)) ELSE r

\* After the loop: the position and the size read are applied, then the alpha
load_config_apply(s, a) ==
    LET s1 == IF a.x # <<>> /\ a.y # <<>>
              THEN [s EXCEPT
                      !.geometry.x =
                          Max(0, Min(a.x[1], screen_geometry.width - MinWidth)),
                      !.geometry.y =
                          Max(0, Min(a.y[1], screen_geometry.height - MinHeight))]
              ELSE s
        s2 == IF a.width # <<>> /\ a.height # <<>>
              THEN [s1 EXCEPT !.geometry.width = a.width[1],
                              !.geometry.height = a.height[1]]
              ELSE s1
    IN  setStyleSheet(
            [s2 EXCEPT !.bg_color = setAlpha(@, AlphaOf(s2.transparency))])

\* except Exception: the error is shown and the file removed
\* (first a variant that keeps the file)
load_config_failed_keep(s) ==
    show_error_message(s, "load config failed")
load_config_failed(s) ==
    [show_error_message(s, "load config failed") EXCEPT !.config_file = NoFile]

\* load_config
load_config(s) ==
    LET s0 == [s EXCEPT !.loaded_cfg = s.config_file]
    IN  IF s.config_file.exists
        THEN LET r == load_config_lines(s0, NoWindowAttr, s.config_file.lines)
             IN  IF r.ok THEN load_config_apply(r.s, r.attr)
                 ELSE load_config_failed(r.s)
        ELSE s0

-----------------------------------------------------------------------------
(* Settings of the context menu *)

\* set_transparency(value)
set_transparency(s, value) ==
    LET s1 == [s EXCEPT !.transparency = value,
                        !.bg_color = setAlpha(@, AlphaOf(value))]
    IN  save_config(setStyleSheet(s1))

\* set_font: picked is <<>> (dialog cancelled) or <<font>>
set_font(s, picked) ==
    IF picked # <<>>
    THEN save_config(setStyleSheet([s EXCEPT !.font = picked[1]]))
    ELSE s

\* set_text_color: picked is <<>> (an invalid colour: cancelled) or <<colour>>
set_text_color(s, picked) ==
    IF picked # <<>>
    THEN save_config(setStyleSheet(
             [s EXCEPT !.text_color = setAlpha(picked[1], 255)]))
    ELSE s

\* set_bg_color
set_bg_color(s, picked) ==
    IF picked # <<>>
    THEN save_config(setStyleSheet(
             [s EXCEPT !.bg_color = setAlpha(picked[1], AlphaOf(s.transparency))]))
    ELSE s

\* resize_window: input is <<>> (dialog cancelled) or <<text>>
resize_window(s, input) ==
    IF input # <<>> /\ input[1] # <<>>
    THEN LET fields == Split(input[1], "x")
             w == ParseInt(fields[1])
             h == ParseInt(fields[2])
         IN  IF Len(fields) # 2 \/ ~w.ok \/ ~h.ok
             THEN show_error_message(s, "size format: use WxH")
             ELSE IF w.val > MinResize /\ h.val > MinResize
             THEN save_config([s EXCEPT !.geometry.width = w.val,
                                        !.geometry.height = h.val])
             ELSE show_error_message(s, "size too small")
    ELSE s

-----------------------------------------------------------------------------
(* eventFilter: the mouse on the window (or forwarded from text_edit) *)

\* MouseButtonPress with the left button
\* (first a variant that stops the timer and does not start it)
eventFilter_press_nostart(s, pos) ==
    timer_stop([s EXCEPT !.drag_start_position = <<pos>>])
eventFilter_press(s, pos) ==
    timer_start(timer_stop([s EXCEPT !.drag_start_position = <<pos>>]),
                hide_delay)

\* bool(QPoint): a null point (0, 0) is false, like None
Truthy(p) == p # <<>> /\ p[1] # [x |-> 0, y |-> 0]

\* MouseMove with the left button held: self.move(self.mapToGlobal(delta))
eventFilter_move(s, pos) ==
    IF Truthy(s.drag_start_position)
    THEN [s EXCEPT
            !.geometry.x = @ + (pos.x - s.drag_start_position[1].x),
            !.geometry.y = @ + (pos.y - s.drag_start_position[1].y)]
    ELSE s

\* MouseButtonRelease with the left button
eventFilter_release(s) == [s EXCEPT !.drag_start_position = <<>>]

-----------------------------------------------------------------------------
(* The text files of the machine *)

Repeat(c, n) == [i \in 1..n |-> c]

\* The characters of the chapter patterns, and two numerals
Di == "<U+7B2C di>"
Zhang == "<U+7AE0 zhang>"
Hui == "<U+56DE hui>"
Ji == "<U+96C6 ji>"
Juan == "<U+5377 juan>"
Yi == "<U+4E00 yi>"
Er == "<U+4E8C er>"
Letters == <<"a", "b", "c", "d", "e", "f", "g", "h", "i", "j", "k", "l", "m",
             "n", "o", "p", "q", "r", "s", "t", "u", "v", "w", "x", "y", "z">>

\* One line "di c zhang" per character c of cs
RECURSIVE ChapterLines(_)
ChapterLines(cs) ==
    IF cs = <<>> THEN <<>>
    ELSE <<Di, Head(cs), Zhang, "\n">> \o ChapterLines(Tail(cs))

\* path |-> [readable, text]; a path outside the domain does not exist
FilePaths ==
    {"novel.txt", "empty.txt", "blank.txt", "locked.txt", "short.txt",
     "other.txt", "indent.txt", "mid.txt", "long.txt", "draft.txt",
     "saga.txt", "epic.txt", "many.txt"}
FileSystem ==
    [p \in FilePaths |->
       CASE p = "novel.txt"  -> [readable |-> TRUE, text |-> <<"a", "b", "\n", "c">>]
         [] p = "empty.txt"  -> [readable |-> TRUE, text |-> <<>>]
         [] p = "blank.txt"  -> [readable |-> TRUE, text |-> <<" ", "\n">>]
         [] p = "locked.txt" -> [readable |-> FALSE, text |-> <<>>]
         [] p = "short.txt"  -> [readable |-> TRUE,
                                 text |-> <<"a", "b", "\n", "c", "d">>]
         [] p = "other.txt"  -> [readable |-> TRUE,
                                 text |-> <<"c", "d", " ", "a", "b", "\n", "a", "b">>]
         [] p = "indent.txt" -> [readable |-> TRUE,
                                 text |-> <<" ", " ", "e", "f", "\n", "g">>]
         [] p = "mid.txt"    -> [readable |-> TRUE,
                                 text |-> Repeat("m", 40) \o <<"\n", "n">>]
         [] p = "long.txt"   -> [readable |-> TRUE,
                                 text |-> Repeat("l", 110) \o <<"\n", "z">>]
         [] p = "draft.txt"  -> [readable |-> TRUE, text |-> draft]
         [] p = "saga.txt"   -> [readable |-> TRUE,
                                 text |-> <<Di, Er, Zhang, " ", Di, Yi, Zhang,
                                            "\n", Di, Er, Zhang>>]
         [] p = "epic.txt"   -> [readable |-> TRUE,
                                 text |-> <<Di>> \o Repeat("x", 10) \o
                                          <<Zhang, Di, Yi, Zhang>>]
         [] p = "many.txt"   -> [readable |-> TRUE,
                                 text |-> ChapterLines(
                                     <<"u", "t", "s", "r", "q", "p", "o", "n",
                                       "m", "l", "k", "j", "i", "h", "g", "f",
                                       "e", "d", "c", "b", "a">>)]]

\* os.path.exists(p) and os.path.isfile(p)
IsFile(p) == p \in FilePaths

-----------------------------------------------------------------------------
(* File loader *)

\* The except branch of load_file: the error is shown and logged
load_file_failed(s) ==
    [show_error_message(s, "load file failed") EXCEPT !.error_log = @ + 1]

\* load_file(file_path).  Called by load_recent_file from __init__, before
\* init_system_tray: update_empty_state raises AttributeError at its last
\* line, inside the try, so the except branch runs and the timer is not
\* restarted.
load_file(s, file_path) ==
    IF IsFile(file_path) /\ FileSystem[file_path].readable
    THEN LET text == FileSystem[file_path].text
             s1 == [setText(s, text) EXCEPT !.content = text,
                                            !.displayed_file = file_path]
         IN  IF has_status_action(s1)
             THEN timer_start(update_empty_state(s1), hide_delay)
             ELSE load_file_failed(update_empty_state_flags(s1))
    ELSE load_file_failed(s)

\* chapter_patterns: each is di (.*?) c, for these c
chapter_patterns == <<Zhang, Hui, Ji, Juan>>

\* ord(c), by which str compares
CodePoint(c) ==
    CASE c = "\n" -> 10
      [] c = " " -> 32
      [] c = Di -> 31532
      [] c = Zhang -> 31456
      [] c = Hui -> 22238
      [] c = Ji -> 38598
      [] c = Juan -> 21367
      [] c = Yi -> 19968
      [] c = Er -> 20108
      [] OTHER -> 96 + CHOOSE k \in 1..Len(Letters) : Letters[k] = c

\* a < b for two str
StrLess(a, b) ==
    \E k \in 1..(Min(Len(a), Len(b)) + 1) :
        /\ \A i \in 1..(k - 1) : a[i] = b[i]
        /\ \/ k > Len(a) /\ k <= Len(b)
           \/ k <= Len(a) /\ k <= Len(b) /\ CodePoint(a[k]) < CodePoint(b[k])

\* list(set(...)) then list.sort()
RECURSIVE sorted(_)
sorted(S) ==
    IF S = {} THEN <<>>
    ELSE LET least == CHOOSE x \in S : \A y \in S \ {x} : StrLess(x, y)
         IN  <<least>> \o sorted(S \ {least})

\* Where the match of di (.*?) close that starts at text[i] ends, or 0: the
\* lazy group stops at the first close, and "." matches no newline
MatchEnd(text, close, i) ==
    LET ends == {j \in (i + 1)..Len(text) :
                    /\ text[j] = close
                    /\ \A k \in (i + 1)..(j - 1) : text[k] # "\n"}
    IN  IF ends = {} THEN 0
        ELSE CHOOSE j \in ends : \A k \in ends : j <= k

\* re.findall(di (.*?) close, text) from position p on: the groups of the
\* matches, leftmost first, none overlapping
RECURSIVE findall(_, _, _)
findall(text, close, p) ==
    LET starts == {i \in p..Len(text) :
                      text[i] = Di /\ MatchEnd(text, close, i) # 0}
    IN  IF starts = {} THEN <<>>
        ELSE LET i == CHOOSE x \in starts : \A y \in starts : x <= y
                 j == MatchEnd(text, close, i)
             IN  <<SubSeq(text, i + 1, j - 1)>> \o findall(text, close, j + 1)

\* The labels extract_chapters keeps of one pattern: f"di{match}zhang" for
\* the matches shorter than 10
pattern_chapters(text, close) ==
    LET matches == findall(text, close, 1)
    IN  { <<Di>> \o matches[k] \o <<Zhang>> :
            k \in {n \in 1..Len(matches) : Len(matches[n]) < MatchMaxLen} }

\* extract_chapters(file_path)
extract_chapters(s, file_path) ==
    IF IsFile(file_path) /\ FileSystem[file_path].readable
    THEN LET text == FileSystem[file_path].text
             found == UNION { pattern_chapters(text, chapter_patterns[n]) :
                                n \in 1..Len(chapter_patterns) }
         IN  [s EXCEPT !.chapters = Slice(sorted(found), 0, MaxChapters),
                       !.chapters_src = file_path]
    ELSE show_error_message(s, "extract chapters failed")

\* save_recent_file(file_path)
save_recent_file(s, file_path) ==
    [s EXCEPT !.recent_file = FileOf(<<file_path>>)]

\* load_recent_file
load_recent_file(s) ==
    IF s.recent_file.exists /\ s.recent_file.lines # <<>>
    THEN LET recent == s.recent_file.lines[1]
         IN  IF IsFile(recent)
             THEN extract_chapters(
                      load_file([s EXCEPT !.current_file = recent], recent),
                      recent)
             ELSE s
    ELSE s

\* open_file: picked is <<>> (dialog cancelled) or <<path>>
open_file(s, picked) ==
    IF picked # <<>>
    THEN LET p == picked[1]
             s1 == [load_file(s, p) EXCEPT !.current_file = p]
         IN  extract_chapters(save_recent_file(s1, p), p)
    ELSE s

\* open_file_from_tray
open_file_from_tray(s, picked) == open_file(show_window_from_tray(s), picked)

-----------------------------------------------------------------------------
(* Bookmark store *)

\* QTextCursor.selectedText()
selectedText(text, c) ==
    SubSeq(text, Min(c.anchor, c.pos) + 1, Max(c.anchor, c.pos))

\* StartOfLine, then EndOfLine with KeepAnchor: the line the cursor is in
RECURSIVE LineStart(_, _)
LineStart(text, i) ==
    IF i = 0 \/ text[i] = "\n" THEN i ELSE LineStart(text, i - 1)
RECURSIVE LineEnd(_, _)
LineEnd(text, i) ==
    IF i = Len(text) \/ text[i + 1] = "\n" THEN i ELSE LineEnd(text, i + 1)
currentLine(text, c) ==
    SubSeq(text, LineStart(text, c.pos) + 1, LineEnd(text, c.pos))

\* add_bookmark: the selection, or else the cursor's line, cut to 100
\* characters, is appended to the bookmark file
add_bookmark(s) ==
    LET sel == selectedText(s.doc, s.cursor)
        selected_text == IF sel = <<>> THEN currentLine(s.doc, s.cursor) ELSE sel
    IN  IF selected_text # <<>>
        THEN show_message(
                 [s EXCEPT
                    !.bookmark_file =
                        FileOf(@.lines \o <<Slice(selected_text, 0, BookmarkMaxLen)>>),
                    !.bm_src = Append(@, s.doc)],
                 "success", "bookmark added")
        ELSE s

\* The label of a bookmark in the menu, which is what its action passes on
menu_label(bookmark) ==
    IF Len(bookmark) > MenuLabelMax
    THEN Slice(bookmark, 0, MenuLabelKeep) \o <<".", ".", ".">>
    ELSE bookmark

\* show_context_menu: the bookmark entries, one per non-blank line of the
\* file, the first ten; line is the line of the file the entry was read from
RECURSIVE menu_bookmarks(_, _)
menu_bookmarks(lines, i) ==
    IF i > Len(lines) THEN <<>>
    ELSE IF Strip(lines[i]) # <<>>
    THEN <<[label |-> menu_label(Strip(lines[i])), line |-> i]>>
         \o menu_bookmarks(lines, i + 1)
    ELSE menu_bookmarks(lines, i + 1)
bookmark_actions(s) ==
    IF s.bookmark_file.exists
    THEN Slice(menu_bookmarks(s.bookmark_file.lines, 1), 0, MenuMaxBookmarks)
    ELSE <<>>

\* highlight_text(start, length)
highlight_text(s, start, length) ==
    [s EXCEPT !.cursor = [anchor |-> start, pos |-> start + length]]

\* jump_to_bookmark(bookmark_text)
\* (first a variant that moves the cursor home when the text is missing)
jump_to_bookmark_home(s, bookmark_text) ==
    LET index == Find(s.doc, bookmark_text)
    IN  IF index # -1
        THEN highlight_text(s, index, Len(bookmark_text))
        ELSE show_error_message(
                 [s EXCEPT !.cursor = [anchor |-> 0, pos |-> 0]],
                 "bookmark text not found")
jump_to_bookmark(s, bookmark_text) ==
    LET index == Find(s.doc, bookmark_text)
    IN  IF index # -1
        THEN highlight_text([s EXCEPT !.cursor = [anchor |-> index, pos |-> index]],
                            index, Len(bookmark_text))
        ELSE show_error_message(s, "bookmark text not found")

-----------------------------------------------------------------------------
(* Construction *)

\* The fields as __init__ first sets them, the window as initUI makes it;
\* the files of the ini directory are those of the record f.
NewObject(f) ==
    LET bg == QColor(255, 255, 255, DefaultAlpha)
        text == QColor(0, 0, 0, 255)
        simhei == [family |-> <<"SimHei">>, size |-> 14]
    IN  [pc |-> "start",
         transparency |-> DefaultTransparency, is_hidden |-> FALSE,
         is_empty |-> TRUE, font |-> simhei, text_color |-> text,
         bg_color |-> bg, drag_start_position |-> <<>>,
         style_sheet |-> [bg |-> bg, text |-> text, font |-> simhei],
         doc |-> <<>>, cursor |-> [anchor |-> 0, pos |-> 0],
         hide_timer |-> [active |-> FALSE, remaining |-> 0],
         original_bg_alpha |-> <<>>, visible |-> FALSE,
         geometry |-> [x |-> 100, y |-> 100, width |-> 800, height |-> 600],
         status |-> "", current_file |-> "",
         config_file |-> f.config_file, bookmark_file |-> f.bookmark_file,
         recent_file |-> f.recent_file, error_log |-> f.error_log,
         shown |-> <<>>, last_op |-> "", last_arg |-> <<>>, content |-> <<>>,
         saved |-> f.saved, loaded_cfg |-> NoFile, bm_src |-> f.bm_src,
         chapters |-> <<>>, displayed_file |-> "", chapters_src |-> ""]

\* init_system_tray: the status entry starts as "waiting for file"
init_system_tray(s) == [s EXCEPT !.status = "waiting for file"]

\* TextReader.__init__, from "6. load the configuration" on; emergency_mode
\* is whether sys.argv[1] is "--emergency", which decides what __main__
\* does next
init(s, emergency_mode) ==
    LET s1 == load_recent_file(load_config(s))
        s2 == update_empty_state(init_system_tray(s1))
    IN  [force_show_window(s2) EXCEPT
           !.pc = IF emergency_mode THEN "emergency" ELSE "running"]

\* __main__ with --emergency, after the construction
emergency(s) ==
    LET s1 == [s EXCEPT !.transparency = DefaultTransparency,
                        !.bg_color = setAlpha(@, DefaultAlpha)]
    IN  [show_message(force_show_window(s1), "emergency mode",
                      "reset to the default display settings")
           EXCEPT !.pc = "running"]

-----------------------------------------------------------------------------
(* Inputs *)

\* Config files found at the first start
OldConfigs ==
    { NoFile,
      FileOf(<< ConfigLine("transparency", <<"2", "5", "0">>),
                <<"theme", "=", "d", "a", "r", "k">>,
                ConfigLine("window_width", <<"1", "0", "0">>),
                ConfigLine("window_height", <<"9", "0", "0", "0">>) >>),
      FileOf(<< ConfigLine("transparency", <<"-", "5">>),
                ConfigLine("window_x", <<"-", "2", "0">>),
                ConfigLine("window_y", <<"5", "0", "0", "0">>),
                <<>>,
                <<"#", " ", "n", "o", "t", "e">> >>),
      FileOf(<< ConfigLine("bg_color", <<"#", "f", "f", "0", "0", "0", "0">>),
                ConfigLine("transparency", <<"0">>),
                ConfigLine("font_size", <<"1", "2", "p", "t">>) >>),
      FileOf(<< ConfigLine("window_width", <<>>),
                ConfigLine("transparency", <<"1", "0", "0">>) >>) }

\* Colours picked in the colour dialog: an invalid colour (cancelled), or red
PickedColors == { <<>>, <<QColor(255, 0, 0, 255)>> }

\* Fonts picked in the font dialog: none (cancelled), or KaiTi 12
PickedFonts == { <<>>, <<[family |-> <<"KaiTi">>, size |-> 12]>> }

\* Texts typed into the resize dialog: none (cancelled), or a text
ResizeInputs ==
    { <<>>, << <<>> >>,
      << <<"1", "0", "0", "x", "1", "0", "0">> >>,
      << <<"5", "0", "x", "5", "0">> >>,
      << <<"8", "0", "0">> >>,
      << <<"w", "x", "h">> >> }

\* Where the mouse is pressed and where it is moved to, in window coordinates
PressPositions == { [x |-> 0, y |-> 0], [x |-> 50, y |-> 50] }
MovePositions == { [x |-> -550, y |-> 50] }

\* The window can be grabbed while a part of it is on the screen
OnDesk(g) ==
    /\ g.x + g.width > 0 /\ g.x < screen_geometry.width
    /\ g.y + g.height > 0 /\ g.y < screen_geometry.height

-----------------------------------------------------------------------------
(* Actions: one per handler *)

\* The record a handler starts from
Entry == [Self EXCEPT !.shown = <<>>, !.loaded_cfg = NoFile]

Running == pc = "running"

\* ex = TextReader()  (error.log is followed up to MaxLog lines)
Startup ==
    /\ pc = "start"
    /\ \E emergency_mode \in BOOLEAN :
          /\ init(Entry, emergency_mode).error_log <= MaxLog
          /\ Commit(init(Entry, emergency_mode), "__init__", <<>>)

\* The --emergency block of __main__
Emergency ==
    /\ pc = "emergency"
    /\ Commit(emergency(Entry), "emergency", <<>>)

\* Ctrl+Q, the exit entries: the process ends; it is launched again with the
\* files it left
Exit ==
    /\ Running
    /\ Commit(NewObject(Self), "exit", <<>>)

\* "import book" of the context menu
OpenFile(paths) ==
    /\ Running
    /\ \E picked \in {<<>>} \cup {<<p>> : p \in paths} :
          /\ picked # <<>> /\ ~FileSystem[picked[1]].readable => error_log < MaxLog
          /\ Commit(open_file(Entry, picked), "open_file", <<>>)

\* "select file" of the tray menu
OpenFileFromTray(paths) ==
    /\ Running
    /\ \E picked \in {<<>>} \cup {<<p>> : p \in paths} :
          /\ picked # <<>> /\ ~FileSystem[picked[1]].readable => error_log < MaxLog
          /\ Commit(open_file_from_tray(Entry, picked), "open_file_from_tray", <<>>)

\* The left mouse button goes down on the window
MousePress ==
    /\ Running
    /\ \E pos \in PressPositions :
          Commit(eventFilter_press(Entry, pos), "mouse_press", <<>>)

\* The mouse moves with the left button held
MouseMove ==
    /\ Running
    /\ \E pos \in MovePositions :
          /\ OnDesk(eventFilter_move(Entry, pos).geometry)
          /\ Commit(eventFilter_move(Entry, pos), "mouse_move", <<>>)

\* The left mouse button goes up
MouseRelease ==
    /\ Running
    /\ Commit(eventFilter_release(Entry), "mouse_release", <<>>)

\* Time passes while hide_timer runs
Tick ==
    /\ Running
    /\ hide_timer.active /\ hide_timer.remaining > 0
    /\ Commit([Entry EXCEPT !.hide_timer.remaining =
                   Max(0, @ - hide_delay \div TimeSteps)], "tick", <<>>)

\* hide_timer.timeout: the timer is periodic, its slot runs
Timeout ==
    /\ Running
    /\ hide_timer.active /\ hide_timer.remaining = 0
    /\ Commit(check_and_hide_window(timer_start(Entry, hide_delay)),
              "timeout", <<>>)

\* Ctrl+Alt+T
Toggle ==
    /\ Running
    /\ Commit(toggle_window_visibility(Entry), "toggle_window_visibility", <<>>)

\* "show window" of the tray menu
TrayShow ==
    /\ Running
    /\ Commit(show_window_from_tray(Entry), "show_window_from_tray", <<>>)

\* "hide window" of the tray menu
TrayHide ==
    /\ Running
    /\ Commit(hide_window_to_tray(Entry), "hide_window_to_tray", <<>>)

\* A click or a double click on the tray icon
TrayActivated ==
    /\ Running
    /\ \E reason \in {"Trigger", "DoubleClick", "Context"} :
          Commit(tray_icon_activated(Entry, reason), "tray_icon_activated", <<>>)

\* An entry of the transparency menu
SetTransparency(values) ==
    /\ Running
    /\ \E value \in values :
          Commit(set_transparency(Entry, value), "set_transparency", <<>>)

\* "set font"
SetFont(fonts) ==
    /\ Running
    /\ \E picked \in fonts :
          Commit(set_font(Entry, picked), "set_font", <<>>)

\* "set text colour"
SetTextColor(colors) ==
    /\ Running
    /\ \E picked \in colors :
          Commit(set_text_color(Entry, picked), "set_text_color", <<>>)

\* "set background colour"
SetBgColor(colors) ==
    /\ Running
    /\ \E picked \in colors :
          Commit(set_bg_color(Entry, picked), "set_bg_color", <<>>)

\* "resize window"
ResizeWindow(inputs) ==
    /\ Running
    /\ \E input \in inputs :
          Commit(resize_window(Entry, input), "resize_window", <<>>)

\* "add bookmark"
AddBookmark ==
    /\ Running
    /\ Len(bookmark_file.lines) < MaxBookmarks
    /\ Commit(add_bookmark(Entry), "add_bookmark", <<>>)

\* A bookmark entry of the context menu
JumpToBookmark ==
    /\ Running
    /\ \E i \in 1..Len(bookmark_actions(Self)) :
          LET entry == bookmark_actions(Self)[i]
          IN  Commit(jump_to_bookmark(Entry, entry.label),
                     "jump_to_bookmark", <<entry>>)

-----------------------------------------------------------------------------
(* Specifications *)

\* The process is launched: the fields hold their defaults, the ini
\* directory holds config.txt and recent.txt as given, and draft.txt holds
\* one of the texts of drafts.
Launch(configs, recents, drafts) ==
    \E c \in configs, r \in recents :
        LET s == NewObject([config_file |-> c, bookmark_file |-> NoFile,
                            recent_file |-> r, error_log |-> 0,
                            saved |-> <<>>, bm_src |-> <<>>])
        IN  /\ pc = s.pc
            /\ transparency = s.transparency
            /\ is_hidden = s.is_hidden
            /\ is_empty = s.is_empty
            /\ font = s.font
            /\ text_color = s.text_color
            /\ bg_color = s.bg_color
            /\ drag_start_position = s.drag_start_position
            /\ style_sheet = s.style_sheet
            /\ doc = s.doc
            /\ cursor = s.cursor
            /\ hide_timer = s.hide_timer
            /\ original_bg_alpha = s.original_bg_alpha
            /\ visible = s.visible
            /\ geometry = s.geometry
            /\ status = s.status
            /\ current_file = s.current_file
            /\ config_file = s.config_file
            /\ bookmark_file = s.bookmark_file
            /\ recent_file = s.recent_file
            /\ error_log = s.error_log
            /\ shown = s.shown
            /\ last_op = s.last_op
            /\ last_arg = s.last_arg
            /\ content = s.content
            /\ saved = s.saved
            /\ loaded_cfg = s.loaded_cfg
            /\ bm_src = s.bm_src
            /\ chapters = s.chapters
            /\ displayed_file = s.displayed_file
            /\ chapters_src = s.chapters_src
            /\ draft \in drafts

\* Visibility: the window, the timer, the tray and the shortcut
VisPaths == {"novel.txt", "empty.txt", "blank.txt"}

Init ==
    Launch({NoFile},
           {NoFile, FileOf(<<"novel.txt">>), FileOf(<<"empty.txt">>)},
           {<<>>})

Next ==
    \/ Startup
    \/ Emergency
    \/ OpenFile(VisPaths)
    \/ OpenFileFromTray(VisPaths)
    \/ MousePress
    \/ Tick
    \/ Timeout
    \/ Toggle
    \/ TrayShow
    \/ TrayHide
    \/ TrayActivated
    \/ SetTransparency({50, 100})
    \/ SetBgColor({<<QColor(255, 0, 0, 255)>>})

Spec == Init /\ [][Next]_vars

\* The values the transparency menu offers
MenuTransparencies == {100, 90, 70, 50}

\* Configuration: the settings, the geometry, and the next start
InitCfg == Launch(OldConfigs, {NoFile}, {<<>>})

NextCfg ==
    \/ Startup
    \/ Emergency
    \/ SetTransparency(MenuTransparencies)
    \/ SetFont(PickedFonts)
    \/ SetTextColor(PickedColors)
    \/ SetBgColor(PickedColors)
    \/ ResizeWindow(ResizeInputs)
    \/ MousePress
    \/ MouseMove
    \/ MouseRelease
    \/ Exit

SpecCfg == InitCfg /\ [][NextCfg]_vars

\* Bookmarks
BmPaths == {"short.txt", "other.txt", "indent.txt", "mid.txt", "long.txt"}

InitBm == Launch({NoFile}, {NoFile, FileOf(<<"short.txt">>)}, {<<>>})

NextBm ==
    \/ Startup
    \/ Emergency
    \/ OpenFile(BmPaths)
    \/ AddBookmark
    \/ JumpToBookmark

SpecBm == InitBm /\ [][NextBm]_vars

\* Chapters: draft.txt holds any text of up to DraftLen of these characters
DraftChars == {Di, Zhang, Hui, Yi, "\n"}
Drafts == UNION { [1..n -> DraftChars] : n \in 0..DraftLen }
ChPaths == {"draft.txt", "saga.txt", "epic.txt", "many.txt"}

InitCh == Launch({NoFile}, {NoFile, FileOf(<<"draft.txt">>)}, Drafts)

NextCh ==
    \/ Startup
    \/ Emergency
    \/ OpenFile(ChPaths)

SpecCh == InitCh /\ [][NextCh]_vars

\* Failures: malformed config files, a file that cannot be read
ErrPaths == {"novel.txt", "locked.txt", "saga.txt"}

InitErr == Launch(OldConfigs, {NoFile, FileOf(<<"locked.txt">>)}, {<<>>})

NextErr ==
    \/ Startup
    \/ Emergency
    \/ OpenFile(ErrPaths)
    \/ OpenFileFromTray(ErrPaths)
    \/ Toggle
    \/ Exit

SpecErr == InitErr /\ [][NextErr]_vars

-----------------------------------------------------------------------------
(* Properties of the visibility controller, under Spec *)

\* The text last loaded is empty or only whitespace (none loaded: empty)
ContentEmpty == Strip(content) = <<>>

\* The handlers that run show_window as the user's show command
ShowCommands == {"show_window_from_tray"}

\* C1: while the loaded content is empty the hide timer is not running, so
\* that its slot check_and_hide_window does not run.
C1_TimerOffWhileEmpty ==
    (pc = "running" /\ ContentEmpty) =>
        (~hide_timer.active /\ last_op # "timeout")

\* C2: while the loaded content is empty, neither the expiry of the timer nor
\* toggle_window_visibility moves the window to Hidden: is_hidden stays FALSE
\* and the background alpha is not set to 0.
C2_EmptySuppressesAutoHide ==
    [][ (ContentEmpty /\ ~is_hidden
         /\ last_op' \in {"timeout", "toggle_window_visibility"})
        => (~is_hidden' /\ bg_color'.a # 0) ]_vars

\* C3: with non-empty content toggle_window_visibility moves Visible to Hidden
\* and Hidden, however reached, back to Visible with the background opaque
\* again.
C3_ToggleTogglesVisibility ==
    [][ (~ContentEmpty /\ last_op' = "toggle_window_visibility")
        => /\ is_hidden' = ~is_hidden
           /\ is_hidden => bg_color'.a # 0 ]_vars

\* C4: a show command that follows hide_window leaves the background alpha
\* at int(255 * transparency / 100), is_hidden FALSE and, with non-empty
\* content, the timer running.
C4_ShowRestoresOpacity ==
    [][ (/\ last_op \in {"timeout", "toggle_window_visibility"}
         /\ is_hidden /\ bg_color.a = 0
         /\ last_op' \in ShowCommands)
        => /\ bg_color'.a = AlphaOf(transparency')
           /\ ~is_hidden'
           /\ ~ContentEmpty => hide_timer'.active ]_vars

\* C5 as stated: after a left-button press or a show command the window is
\* not hidden, its background is opaque again and the timer runs with the
\* whole hide delay.
C5_InteractionShowsWindow ==
    [][ last_op' \in {"mouse_press"} \cup ShowCommands
        => /\ ~is_hidden'
           /\ bg_color'.a # 0
           /\ hide_timer' = [active |-> TRUE, remaining |-> hide_delay] ]_vars

\* C5 as amended: a left-button press restarts the timer with the whole hide
\* delay and changes neither is_hidden nor the opacity; a show command leaves
\* the window shown, not hidden and with a background alpha above 0, and
\* restarts the timer with the whole hide delay when is_empty is FALSE,
\* leaving it as it was when is_empty is TRUE.
C5_InteractionResetsTimer ==
    [][ /\ last_op' = "mouse_press"
           => /\ hide_timer' = [active |-> TRUE, remaining |-> hide_delay]
              /\ is_hidden' = is_hidden
              /\ bg_color' = bg_color
              /\ style_sheet' = style_sheet
        /\ last_op' \in ShowCommands
           => /\ ~is_hidden' /\ visible'
              /\ bg_color'.a # 0 /\ style_sheet'.bg.a # 0
              /\ hide_timer' = IF is_empty' THEN hide_timer
                               ELSE [active |-> TRUE, remaining |-> hide_delay]
      ]_vars

\* C5: the window was pressed while Hidden; the timer runs again, the window
\* is still hidden.
C5_PressedWhileHidden ==
    /\ last_op = "mouse_press"
    /\ is_hidden /\ bg_color.a = 0
    /\ hide_timer = [active |-> TRUE, remaining |-> hide_delay]

-----------------------------------------------------------------------------
(* Properties of the configuration store, under SpecCfg *)

\* The constructor has just run and has read the file save_config wrote last
ReloadedSaved == last_op = "__init__" /\ saved # <<>>

\* C6 as stated: after save_config and the load_config of the next start, the
\* window's width, height, x and y and the text and background colours are
\* those save_config saw.
C6_RoundTripExact ==
    ReloadedSaved =>
        /\ geometry = saved[1].geometry
        /\ text_color = saved[1].text_color
        /\ bg_color = saved[1].bg_color

\* v, or the nearest of lo and hi when v is outside lo..hi
Nearest(lo, hi, v) == IF v < lo THEN lo ELSE IF v > hi THEN hi ELSE v

\* C6 as amended: after save_config and the load_config of the next start, the
\* width is the saved one brought into [300, 2000], the height into
\* [200, 1500], x into [0, screen width - 300], y into [0, screen height - 200];
\* the text colour and the background's red, green and blue are the saved
\* ones, and the background alpha is int(255 * transparency / 100).
C6_RoundTripClamped ==
    ReloadedSaved =>
        LET g == saved[1].geometry
        IN  /\ geometry.width = Nearest(300, 2000, g.width)
            /\ geometry.height = Nearest(200, 1500, g.height)
            /\ geometry.x = Nearest(0, screen_geometry.width - 300, g.x)
            /\ geometry.y = Nearest(0, screen_geometry.height - 200, g.y)
            /\ text_color = saved[1].text_color
            /\ setAlpha(bg_color, 255) = setAlpha(saved[1].bg_color, 255)
            /\ bg_color.a = (255 * transparency) \div 100

\* C6: a window made 100 wide and dragged left of the screen was saved, and
\* the next start has read it back.
C6_ReloadedOutOfRange ==
    /\ ReloadedSaved
    /\ saved[1].geometry.width = 100 /\ geometry.width = 300
    /\ saved[1].geometry.x < 0 /\ geometry.x = 0
    /\ text_color = QColor(255, 0, 0, 255)

\* The integers of the lines of a config file that start with key=
RECURSIVE ConfigInts(_, _)
ConfigInts(lines, key) ==
    IF lines = <<>> THEN <<>>
    ELSE LET line == Strip(Head(lines))
             rest == ConfigInts(Tail(lines), key)
         IN  IF StartsWith(line, <<key, "=">>)
             THEN <<ParseInt(Split(line, "=")[2])>> \o rest
             ELSE rest

\* The constructor has just run, and load_config has read a file to its end
LoadedWhole == last_op = "__init__" /\ loaded_cfg.exists /\ shown = <<>>

\* C7: transparency is in [30, 100] in every state, and when load_config has
\* read a file to its end, transparency is the last value the file gives,
\* brought into [30, 100].
C7_TransparencyInRange ==
    /\ transparency >= 30 /\ transparency <= 100
    /\ LoadedWhole =>
           LET given == ConfigInts(loaded_cfg.lines, "transparency")
           IN  given # <<>> =>
                   transparency = Nearest(30, 100, given[Len(given)].val)

\* C7: a file giving transparency=250 was read, and transparency is 100.
C7_ClampedOnLoad ==
    /\ LoadedWhole
    /\ \E i \in 1..Len(loaded_cfg.lines) :
          loaded_cfg.lines[i] = ConfigLine("transparency", <<"2", "5", "0">>)
    /\ transparency = 100

\* The keys whose value load_config passes to int()
NumericKeys == {"transparency", "window_width", "window_height", "window_x",
                "window_y", "font_size"}

\* A line of the file gives a numeric key something that is no integer
Malformed(lines) ==
    \E i \in 1..Len(lines) :
        LET line == Strip(lines[i])
        IN  /\ Len(line) >= 2
            /\ line[1] \in NumericKeys /\ line[2] = "="
            /\ ~ParseInt(Split(line, "=")[2]).ok

\* C8: when the config file holds a malformed numeric value, load_config shows
\* an error and the file is gone when it returns; a file without one, whatever
\* other lines it holds, is read without an error and kept; and with no file
\* (as at the start that follows a failure) load_config shows no error.
C8_MalformedConfigRemoved ==
    last_op = "__init__" =>
        /\ (loaded_cfg.exists /\ Malformed(loaded_cfg.lines)) =>
               /\ shown = <<[title |-> "error", text |-> "load config failed"]>>
               /\ ~config_file.exists
        /\ (loaded_cfg.exists /\ ~Malformed(loaded_cfg.lines)) =>
               /\ shown = <<>>
               /\ config_file = loaded_cfg
        /\ ~loaded_cfg.exists => shown = <<>>

\* C8: a file with font_size=12pt was read: the error was shown, the file is
\* gone.
C8_RemovedAfterError ==
    /\ last_op = "__init__"
    /\ loaded_cfg.exists /\ Malformed(loaded_cfg.lines)
    /\ shown # <<>> /\ ~config_file.exists

-----------------------------------------------------------------------------
(* Properties of the bookmark store, under SpecBm *)

\* C9: when a bookmark that add_bookmark stored is chosen in the menu and the
\* text is the one it was taken from, the selection starts at the first
\* occurrence of the stored text and spans exactly the stored text.
C9_JumpSelectsBookmark ==
    (last_op = "jump_to_bookmark" /\ bm_src[last_arg[1].line] = doc) =>
        LET stored == bookmark_file.lines[last_arg[1].line]
        IN  /\ Min(cursor.anchor, cursor.pos) = Find(doc, stored)
            /\ selectedText(doc, cursor) = stored

\* The message box of a bookmark that is not in the text
NotFoundBox == <<[title |-> "error", text |-> "bookmark text not found"]>>

\* C10: a jump to a bookmark whose text is not in the document shows an error
\* and returns: the handler ends, the event loop goes on, and the cursor and
\* its selection are as before.
C10_MissingBookmarkReported ==
    [][ (last_op' = "jump_to_bookmark" /\ Find(doc, last_arg'[1].label) = -1)
        => /\ shown' = NotFoundBox
           /\ cursor' = cursor
           /\ doc' = doc
           /\ pc' = "running" ]_vars

\* C10: with a selection in the text, a bookmark that is not in it was chosen;
\* the error was shown and the selection is still there.
C10_ReportedMissing ==
    /\ last_op = "jump_to_bookmark"
    /\ Find(doc, last_arg[1].label) = -1
    /\ shown = NotFoundBox
    /\ cursor.anchor # cursor.pos

-----------------------------------------------------------------------------
(* Properties of the chapter list, under SpecCh *)

\* The labels the patterns find in a text, as they stand in it, with a part
\* between the marker characters shorter than 10
FoundLabels(text) ==
    UNION { LET matches == findall(text, chapter_patterns[n], 1)
            IN  { <<Di>> \o matches[k] \o <<chapter_patterns[n]>> :
                    k \in {m \in 1..Len(matches) : Len(matches[m]) < 10} } :
            n \in 1..Len(chapter_patterns) }

\* C11: the chapters extract_chapters made of a file hold no label twice, are
\* in ascending order, are at most 20, hold only labels whose part between
\* the marker characters is shorter than 10, and, when the text has at most 20
\* distinct labels, hold exactly the distinct labels found in the text.
C11_OneEntryPerLabel ==
    chapters_src # "" =>
        LET labels == FoundLabels(FileSystem[chapters_src].text)
            n == Len(chapters)
        IN  /\ \A i, j \in 1..n : i < j => chapters[i] # chapters[j]
            /\ \A i \in 1..(n - 1) : StrLess(chapters[i], chapters[i + 1])
            /\ n <= 20
            /\ \A i \in 1..n : Len(chapters[i]) - 2 < 10
            /\ Cardinality(labels) <= 20 =>
                   {chapters[i] : i \in 1..n} = labels

-----------------------------------------------------------------------------
(* Properties of persistence, under SpecCfg *)

\* The value of the last line key=value of a config file, <<>> without one
ConfigValue(lines, key) ==
    LET given == {i \in 1..Len(lines) : StartsWith(lines[i], <<key, "=">>)}
    IN  IF given = {} THEN <<>>
        ELSE LET last == CHOOSE i \in given : \A j \in given : j <= i
             IN  <<SubSeq(lines[last], 3, Len(lines[last]))>>

\* The lines of a config file give key the integer n
GivesInt(lines, key, n) ==
    LET v == ConfigValue(lines, key)
    IN  v # <<>> /\ ParseInt(v[1]) = [ok |-> TRUE, val |-> n]

\* The config file cf holds these settings
Holds(cf, t, g, f, text, bg) ==
    /\ cf.exists
    /\ GivesInt(cf.lines, "transparency", t)
    /\ GivesInt(cf.lines, "window_width", g.width)
    /\ GivesInt(cf.lines, "window_height", g.height)
    /\ GivesInt(cf.lines, "window_x", g.x)
    /\ GivesInt(cf.lines, "window_y", g.y)
    /\ ConfigValue(cf.lines, "font") = <<f.family>>
    /\ GivesInt(cf.lines, "font_size", f.size)
    /\ ConfigValue(cf.lines, "text_color") = <<ColorName(text)>>
    /\ ConfigValue(cf.lines, "bg_color") = <<ColorName(bg)>>

\* The settings the config file keeps
Settings == <<transparency, font, geometry, ColorName(text_color),
              ColorName(bg_color)>>

\* C12: after every operation that changes the transparency, the font, a
\* colour or the window's geometry (the menu's setters, resize_window, a drag
\* of the window, the --emergency reset), the config file holds the values of
\* the current state.
C12_PersistedOnChange ==
    [][ (/\ last_op' \in {"set_transparency", "set_font", "set_text_color",
                          "set_bg_color", "resize_window", "mouse_move",
                          "emergency"}
         /\ Settings' # Settings)
        => Holds(config_file', transparency', geometry', font', text_color',
                 bg_color') ]_vars

-----------------------------------------------------------------------------
(* Properties of the failures of file operations, under SpecErr *)

\* The error boxes among the message boxes a handler showed
ErrorBoxes(boxes) == {i \in 1..Len(boxes) : boxes[i].title = "error"}

\* C13: every failure of a file operation is caught where it happens, shown
\* in a message box and logged: a start or an open_file that showed n error
\* boxes has appended n lines to error.log, and the handler has ended with the
\* process alive.
C13_FailuresShownAndLogged ==
    [][ last_op' \in {"__init__", "open_file", "open_file_from_tray"} =>
            /\ error_log' = error_log + Cardinality(ErrorBoxes(shown'))
            /\ pc' \in {"running", "emergency"} ]_vars

-----------------------------------------------------------------------------
(* Properties of the tray status, under Spec *)

\* C14: once the start is over, the tray's status text is "hidden" when
\* is_hidden is True, else "waiting for file" when is_empty is True, else
\* "reading".
C14_StatusMatchesFlags ==
    pc = "running" =>
        status = CASE is_hidden -> "hidden"
                   [] ~is_hidden /\ is_empty -> "waiting for file"
                   [] OTHER -> "reading"


\* C14: the window was sent to the tray while a text was being read, and the
\* status says hidden.
C14_HiddenToTray ==
    /\ pc = "running"
    /\ last_op = "hide_window_to_tray"
    /\ is_hidden /\ ~is_empty
    /\ status = "hidden"

-----------------------------------------------------------------------------
(* Properties of the file pointers, under SpecErr *)

\* C15: after open_file, with a file's text displayed, current_file and the
\* path in recent.txt name the file whose text is displayed, and the chapters
\* were extracted from that file.
C15_CurrentFileIsDisplayed ==
    (/\ pc = "running"
     /\ last_op \in {"open_file", "open_file_from_tray"}
     /\ displayed_file # "") =>
        /\ current_file = displayed_file
        /\ recent_file = FileOf(<<displayed_file>>)
        /\ chapters_src = displayed_file

=============================================================================
